---- MODULE Spec2Model ----
(***************************************************************************)
(* Model of dot_tools/gemini-pr-review.py: one sequential pipeline that    *)
(* fetches PR metadata, resolves the branch reference (fork aware), keeps  *)
(* a git worktree, selects a review directory, runs the review agent and   *)
(* moves the report.  Runs follow each other; the repository's remotes,    *)
(* its worktrees and the file system persist from run to run.              *)
(*                                                                         *)
(* Strings the script composes (paths, branch names, remote names) are     *)
(* sequences of tokens, e.g. "feature/x" is <<"f", "/", "x">>, so that     *)
(* replace("/", "-"), startswith and the f-strings are computed.           *)
(***************************************************************************)
EXTENDS Integers, Sequences, FiniteSets, TLC

\* ------------------------------------------------------------ input domains
Empty == <<>>
\* args.work_dir / args.output_dir when the option is not given (None).
NotGiven == <<"<None>">>

PrNumbers == {<<"42">>}
Branches == {<<"f", "/", "x">>, <<"f", "-", "x">>}
Owners == {<<"alice">>}
WorkDirs == {NotGiven, Empty, <<"docs">>}

\* headRepositoryOwner as `gh` may print it: key missing, null, an object
\* without "login", an object with a login.
OwnerMissing == [kind |-> "missing", login |-> Empty]
OwnerNull == [kind |-> "null", login |-> Empty]
OwnerNoLogin == [kind |-> "nologin", login |-> Empty]
OwnerOf(o) == [kind |-> "object", login |-> o]
Upstream == OwnerOf(<<"upstream">>)
OwnerFields == {OwnerMissing, OwnerNull, OwnerNoLogin} \cup {OwnerOf(o) : o \in Owners}

\* The changed-file lists `gh pr view` answers with: none, more cli than
\* webapp, a tie.
PrFileLists ==
  { <<>>,
    << <<"cli", "/", "a.go">> >>,
    << <<"cli", "/", "a.go">>, <<"webapp", "/", "c.ts">> >> }

\* ---------------------------------------------------------- string helpers
Join(a, b) == a \o <<"/">> \o b

StartsWith(s, p) == Len(s) >= Len(p) /\ SubSeq(s, 1, Len(p)) = p

\* str.replace("/", "-")  (line 63)
Replace(s) == [i \in 1..Len(s) |-> IF s[i] = "/" THEN "-" ELSE s[i]]

RECURSIVE LastSlash(_, _)
LastSlash(s, i) == IF i = 0 THEN 0 ELSE IF s[i] = "/" THEN i ELSE LastSlash(s, i - 1)

\* Path(p).name and Path(p).parent
PathName(p) == SubSeq(p, LastSlash(p, Len(p)) + 1, Len(p))
PathParent(p) == SubSeq(p, 1, LastSlash(p, Len(p)) - 1)

\* ------------------------------------------------------------ environment
\* What `git rev-parse --show-toplevel` prints, and the directory the tool
\* is started in (Path.cwd()).
GitTopDir == <<"srv", "/", "proj">>
Cwd == GitTopDir
NoDir == <<"srv", "/", "nodir">>

\* Exit codes an external command may return.
ReturnCodes == {0, 1}

\* A checked-out tree, as far as the tool looks at it: the top-level
\* directories it holds and the directories in which a file named like the
\* report is committed.
Checkouts ==
  { [dirs |-> {}, reports |-> {}],
    [dirs |-> {<<"cli">>, <<"webapp">>, <<"docs">>}, reports |-> {}],
    [dirs |-> {<<"cli">>, <<"webapp">>}, reports |-> {<<"webapp">>}] }

\* ------------------------------------------------- the script's functions
\* Mutant: run_command without its sys.exit(1).
FatalNever(rc) == FALSE

\* run_command: a non-zero return code ends the process (sys.exit(1)).
Fatal(rc) == rc # 0

\* Python truthiness of an optional string argument (`if args.work_dir:`).
Truthy(s) == s # NotGiven /\ s # Empty

\* Mutant: the branch name used as it is, without the replace.
BranchDirPostfixRaw(branch_name) == branch_name

BranchDirPostfix(branch_name) == Replace(branch_name)

RepoName(top) == PathName(top)

TempDirForWs(top) == Join(top, <<"temp">>)

WorktreeDir(top, branch_name) ==
  Join(TempDirForWs(top), RepoName(top) \o <<"-">> \o BranchDirPostfix(branch_name))

IsForkPr(info) == info.isCrossRepository

\* Mutant: only a missing key raises (a null owner or one without login reads
\* as an empty login).
ForkOwnerRaisesIfMissing(info) == info.headRepositoryOwner.kind = "missing"

\* pr_info["headRepositoryOwner"]["login"] raises KeyError / TypeError.
ForkOwnerRaises(info) == info.headRepositoryOwner.kind # "object"

ForkOwner(info) == info.headRepositoryOwner.login

ForkRemoteName(fork_owner) == <<"fork", "-">> \o fork_owner

\* run_command("git remote").split("\n"): stdout is stripped, then split; an
\* empty output splits into one empty string.
ExistingRemotes(remote_list) == IF remote_list = <<>> THEN <<Empty>> ELSE remote_list

\* Mutant: the remote's name compared with the whole `git remote` output.
RemoteListedWhole(name, existing) == existing = <<name>>

\* `fork_remote_name not in existing_remotes` negated.
RemoteListed(name, existing) == \E i \in 1..Len(existing) : existing[i] = name

\* Mutant: the bare branch name also for a fork PR.
BranchRefBare(info) == info.headRefName

BranchRef(info) ==
  IF IsForkPr(info)
  THEN Join(ForkRemoteName(ForkOwner(info)), info.headRefName)
  ELSE info.headRefName

\* The remote `git fetch` is given (none: the primary remote).
FetchRemote(info) == IF IsForkPr(info) THEN ForkRemoteName(ForkOwner(info)) ELSE Empty

\* Mutant: the flag is not looked at.
MustRemoveAlways(use_existing, exists) == exists

\* `not args.use_existing_worktree and worktree_dir.exists()`
MustRemove(use_existing, exists) == ~use_existing /\ exists

\* The counting loop of step 3.
RECURSIVE CountPrefix(_, _)
CountPrefix(files, prefix) ==
  IF files = <<>> THEN 0
  ELSE (IF StartsWith(Head(files), prefix) THEN 1 ELSE 0) + CountPrefix(Tail(files), prefix)

CliChanges(files) == CountPrefix(files, <<"cli", "/">>)

WebappChanges(files) == CountPrefix(files, <<"webapp", "/">>)

AutoDetect(files) ==
  IF CliChanges(files) > WebappChanges(files) THEN <<"cli">> ELSE <<"webapp">>

ReviewDir(work_dir, files) == IF Truthy(work_dir) THEN work_dir ELSE AutoDetect(files)

ReportName(pr_number) == <<"GEMINI_REVIEW_PR">> \o pr_number \o <<".md">>

OutputDir(output_dir) == IF Truthy(output_dir) THEN output_dir ELSE Cwd

TargetFile(output_dir, pr_number) == Join(OutputDir(output_dir), ReportName(pr_number))

\* ------------------------------------------------------------------ state
VARIABLES
  remotes,      \* the repository's remotes, in the order `git remote` lists them
  worktrees,    \* git's registered worktrees: a set of [path, ref]
  fsDirs,       \* directories that exist
  fsFiles,      \* report files that exist
  pc,           \* the running process's position ("idle": no process yet)
  args,         \* argparse result
  pr_info,      \* json.loads of `gh pr view`
  branch_ref,   \* line 100 / 104
  review_dir,   \* line 128 / 148 / 151
  review_path,  \* line 156 / 161
  exit_status,  \* the process's exit status (-1: still running)
  cmds,         \* commands run_command has run in this run: [name, args, rc]
  found,        \* history: what was at worktree_dir when step 2 started
  agent         \* history: the review agent's run

vars == <<remotes, worktrees, fsDirs, fsFiles, pc, args, pr_info, branch_ref,
          review_dir, review_path, exit_status, cmds, found, agent>>

repo == <<remotes, worktrees, fsDirs, fsFiles>>

NoInfo == [headRefName |-> Empty, isCrossRepository |-> FALSE,
           headRepositoryOwner |-> OwnerMissing, files |-> <<>>]
NoArgs == [pr_number |-> Empty, use_existing_worktree |-> FALSE,
           work_dir |-> NotGiven, output_dir |-> NotGiven]
\* found: started (step 2 began), exists (worktree_dir.exists() then), refs
\* (the reference the worktree there was created from).
NoFound == [started |-> FALSE, exists |-> FALSE, refs |-> {}]
\* agent: ran, rc (its exit code), wrote (it wrote the report), stale (the
\* report file was there before it was launched), target_before (the target
\* file was there when it exited).
NoAgent == [ran |-> FALSE, rc |-> 0, wrote |-> FALSE, stale |-> FALSE,
            target_before |-> FALSE]

\* --output-dir values of the model: not given (the current directory), a
\* directory that does not exist, and a directory inside a worktree.
OutputDirs ==
  {NotGiven, NoDir, Join(WorktreeDir(GitTopDir, <<"f", "-", "x">>), <<"webapp">>)}

ArgSets == [pr_number : PrNumbers, use_existing_worktree : BOOLEAN,
            work_dir : WorkDirs, output_dir : OutputDirs]

\* What `gh pr view --json ...` can answer.
PrInfos ==
  [headRefName : Branches, isCrossRepository : {TRUE},
   headRepositoryOwner : OwnerFields, files : PrFileLists]
  \cup
  [headRefName : Branches, isCrossRepository : {FALSE},
   headRepositoryOwner : {Upstream}, files : PrFileLists]

Exists(p) == p \in fsDirs \/ p \in fsFiles

Under(p, root) == p = root \/ StartsWith(p, root \o <<"/">>)

worktree_dir == WorktreeDir(GitTopDir, pr_info.headRefName)

review_file == Join(review_path, ReportName(args.pr_number))

Cmd(name, a, rc) == [name |-> name, args |-> a, rc |-> rc]

\* sys.exit(status), or an uncaught exception (status 1).
Exit(status) == pc' = "exited" /\ exit_status' = status

Init ==
  /\ remotes = << <<"origin">> >>
  /\ worktrees = {}
  /\ fsDirs = {GitTopDir}
  /\ fsFiles = {}
  /\ pc = "idle"
  /\ args = NoArgs
  /\ pr_info = NoInfo
  /\ branch_ref = Empty
  /\ review_dir = Empty
  /\ review_path = Empty
  /\ exit_status = -1
  /\ cmds = <<>>
  /\ found = NoFound
  /\ agent = NoAgent

\* ---------------------------------------------------------------- actions
\* A new process: parse_args (lines 32-51).
ParseArgs ==
  /\ pc \in {"idle", "exited"}
  /\ \E a \in ArgSets : args' = a
  /\ pc' = "step1"
  /\ pr_info' = NoInfo
  /\ branch_ref' = Empty
  /\ review_dir' = Empty
  /\ review_path' = Empty
  /\ exit_status' = -1
  /\ cmds' = <<>>
  /\ found' = NoFound
  /\ agent' = NoAgent
  /\ UNCHANGED repo

\* Step 1: `gh pr view`, json.loads (lines 57-65).  An unparsable answer makes
\* json.loads raise.
FetchPrInfo ==
  /\ pc = "step1"
  /\ \E rc \in ReturnCodes :
       /\ cmds' = Append(cmds, Cmd("gh pr view", <<args.pr_number>>, rc))
       /\ IF Fatal(rc)
          THEN Exit(1) /\ UNCHANGED pr_info
          ELSE \/ Exit(1) /\ UNCHANGED pr_info
               \/ /\ \E info \in PrInfos : pr_info' = info
                  /\ pc' = "rev_parse"
                  /\ UNCHANGED exit_status
  /\ UNCHANGED <<repo, args, branch_ref, review_dir, review_path, found, agent>>

\* `git rev-parse --show-toplevel` and the start of the fork branch
\* (lines 67-87): a fork PR without an owner login raises there.
RevParse ==
  /\ pc = "rev_parse"
  /\ \E rc \in ReturnCodes :
       /\ cmds' = Append(cmds, Cmd("git rev-parse", <<>>, rc))
       /\ IF Fatal(rc) THEN Exit(1)
          ELSE IF IsForkPr(pr_info)
          THEN IF ForkOwnerRaises(pr_info) THEN Exit(1)
               ELSE pc' = "remote_list" /\ UNCHANGED exit_status
          ELSE pc' = "fetch" /\ UNCHANGED exit_status
  /\ UNCHANGED <<repo, args, pr_info, branch_ref, review_dir, review_path, found, agent>>

\* Mutant: the fetch only after a fresh registration.
AfterRemoteListSkipFetch(listed) == IF listed THEN "step2" ELSE "remote_add"

\* Lines 91-97: `git remote add` runs only when the name is not listed; the
\* fetch follows in both cases.
AfterRemoteList(listed) == IF listed THEN "fetch" ELSE "remote_add"

\* `git remote` and the membership test (lines 90-91).
RemoteList ==
  /\ pc = "remote_list"
  /\ \E rc \in ReturnCodes :
       /\ cmds' = Append(cmds, Cmd("git remote", <<>>, rc))
       /\ IF Fatal(rc) THEN Exit(1)
          ELSE /\ pc' = AfterRemoteList(RemoteListed(ForkRemoteName(ForkOwner(pr_info)),
                                                     ExistingRemotes(remotes)))
               /\ UNCHANGED exit_status
  /\ UNCHANGED <<repo, args, pr_info, branch_ref, review_dir, review_path, found, agent>>

\* `git remote add` (line 93).  git refuses a name it already has.
RemoteAdd ==
  /\ pc = "remote_add"
  /\ LET name == ForkRemoteName(ForkOwner(pr_info)) IN
     \E rc \in ReturnCodes :
       /\ (\E i \in 1..Len(remotes) : remotes[i] = name) => rc # 0
       /\ cmds' = Append(cmds, Cmd("git remote add", <<name>>, rc))
       /\ IF Fatal(rc) THEN Exit(1) /\ UNCHANGED remotes
          ELSE /\ remotes' = IF rc = 0 THEN Append(remotes, name) ELSE remotes
               /\ pc' = "fetch"
               /\ UNCHANGED exit_status
  /\ UNCHANGED <<worktrees, fsDirs, fsFiles, args, pr_info, branch_ref, review_dir,
                 review_path, found, agent>>

\* `git fetch [fork remote]` and the branch reference (lines 97-106).
Fetch ==
  /\ pc = "fetch"
  /\ \E rc \in ReturnCodes :
       /\ cmds' = Append(cmds, Cmd("git fetch", <<FetchRemote(pr_info)>>, rc))
       /\ IF Fatal(rc) THEN Exit(1) /\ UNCHANGED branch_ref
          ELSE /\ branch_ref' = BranchRef(pr_info)
               /\ pc' = "step2"
               /\ UNCHANGED exit_status
  /\ UNCHANGED <<repo, args, pr_info, review_dir, review_path, found, agent>>

\* Step 2 begins: mkdir(exist_ok=True) and the removal test (lines 110-113).
Step2 ==
  /\ pc = "step2"
  /\ fsDirs' = fsDirs \cup {TempDirForWs(GitTopDir)}
  /\ found' = [started |-> TRUE,
                exists |-> Exists(worktree_dir),
                refs |-> {w.ref : w \in {v \in worktrees : v.path = worktree_dir}}]
  /\ pc' = IF MustRemove(args.use_existing_worktree, Exists(worktree_dir))
           THEN "wt_remove" ELSE "wt_check"
  /\ UNCHANGED <<remotes, worktrees, fsFiles, args, pr_info, branch_ref, review_dir,
                 review_path, exit_status, cmds, agent>>

\* `git worktree remove --force` (line 115): the directory and all below go.
WorktreeRemove ==
  /\ pc = "wt_remove"
  /\ \E rc \in ReturnCodes :
       /\ (\A w \in worktrees : w.path # worktree_dir) => rc # 0
       /\ cmds' = Append(cmds, Cmd("git worktree remove", <<worktree_dir>>, rc))
       /\ IF Fatal(rc) THEN Exit(1) /\ UNCHANGED <<worktrees, fsDirs, fsFiles>>
          ELSE /\ IF rc = 0
                  THEN /\ worktrees' = {w \in worktrees : w.path # worktree_dir}
                       /\ fsDirs' = {d \in fsDirs : ~Under(d, worktree_dir)}
                       /\ fsFiles' = {f \in fsFiles : ~Under(f, worktree_dir)}
                  ELSE UNCHANGED <<worktrees, fsDirs, fsFiles>>
               /\ pc' = "wt_check"
               /\ UNCHANGED exit_status
  /\ UNCHANGED <<remotes, args, pr_info, branch_ref, review_dir, review_path, found, agent>>

\* `if not worktree_dir.exists()` (lines 117, 120-121).
WorktreeCheck ==
  /\ pc = "wt_check"
  /\ pc' = IF ~Exists(worktree_dir) THEN "wt_add" ELSE "step3"
  /\ UNCHANGED <<repo, args, pr_info, branch_ref, review_dir, review_path, exit_status,
                 cmds, found, agent>>

\* `git worktree add <dir> <branch_ref>` (line 119): checks the reference out.
WorktreeAdd ==
  /\ pc = "wt_add"
  /\ \E rc \in ReturnCodes :
       /\ Exists(worktree_dir) => rc # 0
       /\ cmds' = Append(cmds, Cmd("git worktree add", <<worktree_dir, branch_ref>>, rc))
       /\ IF Fatal(rc) THEN Exit(1) /\ UNCHANGED <<worktrees, fsDirs, fsFiles>>
          ELSE /\ IF rc = 0
                  THEN \E c \in Checkouts :
                         /\ worktrees' = worktrees \cup
                                         {[path |-> worktree_dir, ref |-> branch_ref]}
                         /\ fsDirs' = fsDirs \cup {worktree_dir}
                                      \cup {Join(worktree_dir, d) : d \in c.dirs}
                         /\ fsFiles' = fsFiles \cup
                              {Join(Join(worktree_dir, d), ReportName(args.pr_number)) :
                                 d \in c.reports}
                  ELSE UNCHANGED <<worktrees, fsDirs, fsFiles>>
               /\ pc' = "step3"
               /\ UNCHANGED exit_status
  /\ UNCHANGED <<remotes, args, pr_info, review_dir, branch_ref, review_path, found, agent>>

\* Step 3: the review directory (lines 127-152).
Step3 ==
  /\ pc = "step3"
  /\ review_dir' = ReviewDir(args.work_dir, pr_info.files)
  /\ pc' = "step4"
  /\ UNCHANGED <<repo, args, pr_info, branch_ref, review_path, exit_status, cmds,
                 found, agent>>

\* Step 4 begins: the review path and its fallback (lines 156-161).
Step4 ==
  /\ pc = "step4"
  /\ review_path' = IF ~Exists(Join(worktree_dir, review_dir))
                    THEN worktree_dir ELSE Join(worktree_dir, review_dir)
  /\ pc' = "gemini"
  /\ UNCHANGED <<repo, args, pr_info, branch_ref, review_dir, exit_status, cmds,
                 found, agent>>

\* subprocess.run(gemini_cmd, cwd=review_path) (line 171): the agent may or
\* may not write the report, and its exit code is not looked at.
RunGemini ==
  /\ pc = "gemini"
  /\ \E rc \in ReturnCodes, wrote \in BOOLEAN :
       /\ agent' = [ran |-> TRUE, rc |-> rc, wrote |-> wrote,
                    stale |-> review_file \in fsFiles,
                    target_before |->
                      TargetFile(args.output_dir, args.pr_number) \in fsFiles
                      \/ (wrote /\ TargetFile(args.output_dir, args.pr_number) = review_file)]
       /\ fsFiles' = IF wrote THEN fsFiles \cup {review_file} ELSE fsFiles
  /\ pc' = "step5"
  /\ UNCHANGED <<remotes, worktrees, fsDirs, args, pr_info, branch_ref, review_dir,
                 review_path, exit_status, cmds, found>>

\* Mutant: the target file is looked for instead of the review file.
TargetFileExists == Exists(TargetFile(args.output_dir, args.pr_number))

\* `review_file.exists()` (line 181).
ReviewFileExists == Exists(review_file)

\* Step 5: move the report (lines 175-188).  Path.rename raises when the
\* target's directory does not exist.
Step5 ==
  /\ pc = "step5"
  /\ LET target_file == TargetFile(args.output_dir, args.pr_number) IN
     IF ReviewFileExists
     THEN IF PathParent(target_file) \in fsDirs
          THEN fsFiles' = (fsFiles \ {review_file}) \cup {target_file} /\ Exit(0)
          ELSE UNCHANGED fsFiles /\ Exit(1)
     ELSE UNCHANGED fsFiles /\ Exit(1)
  /\ UNCHANGED <<remotes, worktrees, fsDirs, args, pr_info, branch_ref, review_dir,
                 review_path, cmds, found, agent>>

Next ==
  \/ ParseArgs
  \/ FetchPrInfo
  \/ RevParse
  \/ RemoteList
  \/ RemoteAdd
  \/ Fetch
  \/ Step2
  \/ WorktreeRemove
  \/ WorktreeCheck
  \/ WorktreeAdd
  \/ Step3
  \/ Step4
  \/ RunGemini
  \/ Step5

Spec == Init /\ [][Next]_vars

\* ============================================================== properties
Range(q) == {q[i] : i \in DOMAIN q}

Ran(name) == \E i \in DOMAIN cmds : cmds[i].name = name

Reuse == args.use_existing_worktree

\* Step 2 is over and the run went on.
StepTwoDone == pc \in {"step3", "step4", "gemini", "step5"} \/ (pc = "exited" /\ agent.ran)

Hyphenated(b) == [i \in DOMAIN b |-> IF b[i] = "/" THEN "-" ELSE b[i]]

ExpectedRemote ==
  IF pr_info.isCrossRepository
  THEN <<"fork", "-">> \o pr_info.headRepositoryOwner.login ELSE <<>>

ExpectedRef ==
  IF pr_info.isCrossRepository
  THEN <<"fork", "-">> \o pr_info.headRepositoryOwner.login \o <<"/">> \o pr_info.headRefName
  ELSE pr_info.headRefName

ExpectedWorktreeDir(b) ==
  <<"srv", "/", "proj", "/", "temp", "/", "proj", "-">> \o Hyphenated(b)

WorktreeCmds ==
  SelectSeq(cmds, LAMBDA c : c.name \in {"git worktree remove", "git worktree add"})

RefsAt(path) == {w.ref : w \in {v \in worktrees : v.path = path}}

\* C1: the worktree step runs, by (reuse, path existed): (false, true) remove
\* then add from the branch reference; (false, false) and (true, false) add
\* only; (true, true) nothing.  No removal under reuse, and a removal is
\* followed by a creation.
C1_DecisionTable ==
  /\ StepTwoDone =>
       LET wt == ExpectedWorktreeDir(pr_info.headRefName)
           rm == [name |-> "git worktree remove", args |-> <<wt>>, rc |-> 0]
           add == [name |-> "git worktree add", args |-> <<wt, ExpectedRef>>, rc |-> 0]
       IN WorktreeCmds = IF ~Reuse /\ found.exists THEN <<rm, add>>
                         ELSE IF Reuse /\ found.exists THEN <<>>
                         ELSE <<add>>
  /\ Ran("git worktree remove") => ~Reuse
  /\ \A i \in DOMAIN cmds :
       (cmds[i].name = "git worktree remove" /\ cmds[i].rc = 0
        /\ pc \notin {"wt_check", "wt_add"})
       => (i < Len(cmds) /\ cmds[i + 1].name = "git worktree add")

\* C1 witness: without the flag the path existed; it was removed and created.
C1_Witness ==
  /\ StepTwoDone /\ ~Reuse /\ found.exists
  /\ Len(WorktreeCmds) = 2

\* C2: remote add (when run) before the fetch from the fork remote; the fetch
\* (fork remote for a fork PR, primary remote otherwise) before any worktree
\* remove or add; the fetch on every run that reaches the worktree step.
C2_Ordering ==
  /\ \A i \in DOMAIN cmds :
       /\ cmds[i].name \in {"git worktree remove", "git worktree add"}
          => \E j \in 1..(i - 1) :
               cmds[j] = [name |-> "git fetch", args |-> <<ExpectedRemote>>, rc |-> 0]
       /\ cmds[i].name = "git remote add"
          => /\ pr_info.isCrossRepository
             /\ cmds[i].args = <<ExpectedRemote>>
             /\ \A j \in DOMAIN cmds : cmds[j].name = "git fetch" => i < j
  /\ found.started => Ran("git fetch")

\* C2 witness: a fork PR whose remote was already registered: no remote add,
\* and the worktree was created after the fetch.
C2_Witness ==
  /\ pr_info.isCrossRepository
  /\ ~Ran("git remote add")
  /\ \E i \in DOMAIN cmds : cmds[i].name = "git worktree add" /\ cmds[i].rc = 0

\* C3: `git remote add fork-<owner>` runs only when no remote of exactly that
\* name is listed: a later run does not fail at the registration because the
\* name is taken, and no name is twice in the remote list.
C3_IdempotentRegistration ==
  /\ pc = "remote_add" => ExpectedRemote \notin Range(remotes)
  /\ \A i \in DOMAIN cmds :
       (cmds[i].name = "git remote add" /\ cmds[i].rc # 0)
       => ExpectedRemote \notin Range(remotes)
  /\ \A i, j \in DOMAIN remotes : remotes[i] = remotes[j] => i = j

\* C3 witness: a later run for the same fork owner listed the remotes, found
\* the name and went on to the fetch without a registration.
C3_Witness ==
  /\ pc = "fetch"
  /\ pr_info.isCrossRepository
  /\ Ran("git remote") /\ ~Ran("git remote add")
  /\ ExpectedRemote \in Range(remotes)

\* C4: a command that returns non-zero is the run's last: the process has
\* exited with status 1, nothing later ran, and what was done before stays: a
\* registered remote is still registered after a failed fetch and no worktree
\* was created; a removed worktree stays removed after a failed creation.
C4_FailFast ==
  \A i \in DOMAIN cmds :
    cmds[i].rc # 0 =>
      /\ i = Len(cmds)
      /\ pc = "exited" /\ exit_status = 1
      /\ ~agent.ran /\ review_dir = <<>> /\ review_path = <<>>
      /\ \A j \in 1..(i - 1) :
           cmds[j].name = "git remote add" => cmds[j].args[1] \in Range(remotes)
      /\ cmds[i].name \in {"gh pr view", "git rev-parse", "git remote",
                           "git remote add", "git fetch"}
         => ~found.started /\ ~Ran("git worktree add") /\ ~Ran("git worktree remove")
      /\ cmds[i].name = "git worktree remove"
         => ExpectedWorktreeDir(pr_info.headRefName) \in fsDirs
      /\ cmds[i].name = "git worktree add"
         => ExpectedWorktreeDir(pr_info.headRefName) \notin fsDirs

\* C4 witness: the fork remote was registered, then the fetch failed.
C4_Witness ==
  /\ pc = "exited" /\ Len(cmds) >= 2
  /\ cmds[Len(cmds)].name = "git fetch" /\ cmds[Len(cmds)].rc # 0
  /\ cmds[Len(cmds) - 1].name = "git remote add" /\ cmds[Len(cmds) - 1].rc = 0
  /\ ExpectedRemote \in Range(remotes)

MalformedFork ==
  /\ pr_info.isCrossRepository
  /\ pr_info.headRepositoryOwner.kind \in {"missing", "null", "nologin"}

Tree == {p \in fsDirs \cup fsFiles : Under(p, worktree_dir)}

\* C7: when the worktree step is over without a fatal error the path exists,
\* checked out from this run's branch reference (the bare branch for a
\* non-fork PR, fork-<owner>/<branch> for a fork PR), except under reuse with
\* an existing path, which the step leaves as it found it.
C7_WorktreeAfterStep ==
  /\ [](pc = "step3" =>
          /\ ExpectedWorktreeDir(pr_info.headRefName) \in fsDirs
          /\ ~(Reuse /\ found.exists)
             => RefsAt(ExpectedWorktreeDir(pr_info.headRefName)) = {ExpectedRef}
          /\ (Reuse /\ found.exists)
             => RefsAt(ExpectedWorktreeDir(pr_info.headRefName)) = found.refs)
  /\ [][(pc \in {"step2", "wt_remove", "wt_check", "wt_add"} /\ Reuse
         /\ Exists(worktree_dir))
        => (Tree' = Tree /\ worktrees' = worktrees)]_vars

\* C7 witness: a fork PR, no reuse, the path existed and was recreated.
C7_Witness ==
  /\ pc = "step3" /\ pr_info.isCrossRepository /\ ~Reuse /\ found.exists
  /\ RefsAt(worktree_dir) = {ExpectedRef}

ClaimedTarget ==
  (IF args.output_dir = NotGiven THEN <<"srv", "/", "proj">> ELSE args.output_dir)
  \o <<"/", "GEMINI_REVIEW_PR">> \o args.pr_number \o <<".md">>

ClaimedReport == review_path \o <<"/", "GEMINI_REVIEW_PR">> \o args.pr_number \o <<".md">>

\* C5: once the agent has exited: if the report is absent from the review
\* directory the tool ends with non-zero status and creates no target file; if
\* it is present the file is moved (gone from the review directory, there at
\* the target) and the tool ends with status 0, whatever the agent's exit code.
C5_MissingReport ==
  (pc = "exited" /\ agent.ran) =>
    IF ~(agent.wrote \/ agent.stale)
    THEN /\ exit_status # 0
         /\ (ClaimedTarget \in fsFiles) = agent.target_before
    ELSE /\ exit_status = 0
         /\ ClaimedTarget \in fsFiles
         /\ ClaimedReport \notin fsFiles

\* C8: the agent's directory is worktree/d when that directory exists and the
\* worktree otherwise, d being the --work-dir value whenever one is given and
\* otherwise "cli" when more changed paths start with cli/ than with webapp/,
\* "webapp" in every other case; the selection never ends the run.
C8_ReviewDirSelection ==
  pc = "gemini" =>
    LET wt == ExpectedWorktreeDir(pr_info.headRefName)
        n(prefix) == Cardinality({i \in DOMAIN pr_info.files :
                                    /\ Len(pr_info.files[i]) >= 2
                                    /\ pr_info.files[i][1] = prefix
                                    /\ pr_info.files[i][2] = "/"})
        d == IF args.work_dir # NotGiven THEN args.work_dir
             ELSE IF n("cli") > n("webapp") THEN <<"cli">> ELSE <<"webapp">>
        p == IF d = <<>> THEN wt ELSE wt \o <<"/">> \o d
    IN /\ review_path = (IF p \in fsDirs THEN p ELSE wt)
       /\ exit_status = -1

\* C9 as claimed: a run with --use-existing-worktree that finds its worktree
\* path existing reuses a worktree created from the branch reference this run
\* resolved.
C9_SafeReuseAsClaimed ==
  (found.started /\ found.exists /\ Reuse) => found.refs = {ExpectedRef}

SampleBranches == Branches \cup {<<"m">>, <<"f", "/", "x", "/", "y">>}

\* C9 amended: the worktree path is <root>/temp/<repo>-<branch with every "/"
\* replaced by "-">, a function of the repository name and the branch name
\* only: two branch names get the same path exactly when they agree after the
\* replacement, and a worktree a run finds at its path was created from a
\* reference (bare, or of any fork remote) to a branch that agrees with this
\* run's branch after the replacement.
C9_PathByHyphenatedBranch ==
  /\ worktree_dir = ExpectedWorktreeDir(pr_info.headRefName)
  /\ \A w \in worktrees :
       \E b \in Branches :
         /\ w.path = ExpectedWorktreeDir(b)
         /\ w.ref \in {b} \cup {<<"fork", "-">> \o o \o <<"/">> \o b : o \in Owners}
  /\ \A b1, b2 \in SampleBranches :
       (WorktreeDir(GitTopDir, b1) = WorktreeDir(GitTopDir, b2))
       <=> (Hyphenated(b1) = Hyphenated(b2))
  /\ (found.started /\ found.exists) =>
       \A r \in found.refs :
         \E b \in Branches :
           /\ Hyphenated(b) = Hyphenated(pr_info.headRefName)
           /\ r \in {b} \cup {<<"fork", "-">> \o o \o <<"/">> \o b : o \in Owners}

\* C9 witness: a run with the flag went on with a worktree that another
\* branch reference had created.
C9_Witness ==
  /\ pc = "step3" /\ Reuse /\ found.exists
  /\ found.refs # {ExpectedRef}
  /\ ~Ran("git worktree add")

====
